---- MODULE Spec2Model ----
(***************************************************************************)
(* Model of src/Linkifier.ts: the Linkifier keeps a priority-ordered list  *)
(* of link matchers, debounces linkifyRows requests behind one timer,      *)
(* scans each row with every matcher (recursively, on the remaining text), *)
(* gates occurrences behind an optional asynchronous validation callback   *)
(* and registers accepted links as mouse zones.                            *)
(*                                                                         *)
(* Texts are sequences of one-character strings.  A regular expression is  *)
(* a syntax tree run by a backtracking matcher that returns its results in *)
(* the priority order of String.prototype.match (leftmost start, greedy    *)
(* quantifiers, alternatives left to right).                               *)
(***************************************************************************)
EXTENDS Integers, Sequences, FiniteSets, TLC

(***************************************************************************)
(* Bounds of the model.                                                    *)
(***************************************************************************)
\* ids handed out by registerLinkMatcher stay below this
MaxMatcherId == 2
\* number of linkifyRows calls in one behaviour
MaxRequests == 2
\* row indexes a linkifyRows call may name are 0..MaxRow
MaxRow == 2
\* validation completions that may be outstanding at once
MaxInflight == 2
\* number of linkifyRows calls in one behaviour of the scan specification
ScanMaxRequests == 1
\* ids handed out in the registry-only specification stay below this
RegMaxMatcherId == 4
\* call depth at which the host gives up a recursion with a RangeError; above
\* the length of every row text of the model, so a recursion that consumes at
\* least one character per call never reaches it
StackLimit == 16
\* no row text of the model is longer than this
MaxTextLen == 14

(***************************************************************************)
(* Characters and character classes of the regular expressions.            *)
(***************************************************************************)
Digit == {"0", "1", "2", "3", "4", "5", "6", "7", "8", "9"}
Lower == {"a", "b", "c", "d", "e", "f", "g", "h", "i", "j", "k", "l", "m",
          "n", "o", "p", "q", "r", "s", "t", "u", "v", "w", "x", "y", "z"}
Upper == {"A", "B", "C", "D", "E", "F", "G", "H", "I", "J", "K", "L", "M",
          "N", "O", "P", "Q", "R", "S", "T", "U", "V", "W", "X", "Y", "Z"}
Punct == {" ", "!", "#", "$", "%", "&", "'", "(", ")", "*", "+", ",", "-",
          ".", "/", ":", ";", "<", "=", ">", "?", "@", "[", "]", "^", "_",
          "{", "|", "}", "~"}
AnyChar == Digit \cup Lower \cup Upper \cup Punct
\* \w
WordChar == Digit \cup Lower \cup Upper \cup {"_"}

\* hi of an unbounded quantifier
Unbounded == -1

(***************************************************************************)
(* Syntax trees.  k: kind; cs: the characters a "chr" node accepts;        *)
(* subs: the operands; lo, hi: the bounds of a "rep" node; g: the number   *)
(* of a capture group.                                                     *)
(***************************************************************************)
Node(k, cs, subs, lo, hi, g) ==
  [k |-> k, cs |-> cs, subs |-> subs, lo |-> lo, hi |-> hi, g |-> g]
Chr(cs) == Node("chr", cs, <<>>, 0, 0, 0)
Lit(c) == Chr({c})
Bol == Node("bol", {}, <<>>, 0, 0, 0)
Eol == Node("eol", {}, <<>>, 0, 0, 0)
Cat(subs) == Node("cat", {}, subs, 0, 0, 0)
Alt(subs) == Node("alt", {}, subs, 0, 0, 0)
Rep(sub, lo, hi) == Node("rep", {}, <<sub>>, lo, hi, 0)
Grp(g, sub) == Node("grp", {}, <<sub>>, 0, 0, g)
\* a literal string
Str(s) == Cat([i \in 1..Len(s) |-> Lit(s[i])])

(***************************************************************************)
(* The backtracking matcher.  A matcher state is the position reached      *)
(* (the number of characters consumed) and the spans of the capture groups *)
(* that took part, <<from, to>> as 0-based half-open positions, NoSpan for *)
(* a group that did not.  Run gives the states a node can end in from st,  *)
(* most preferred first.                                                   *)
(***************************************************************************)
NoSpan == <<-1, -1>>

\* Below, CHOOSE out \in {F(x) : x \in {e}} : TRUE is F(e) with e evaluated
\* once, however often F uses it.

RECURSIVE Run(_, _, _)
RECURSIVE RunMany(_, _, _)
RECURSIVE RunCat(_, _, _, _)
RECURSIVE RunAlt(_, _, _, _)
RECURSIVE RunRep(_, _, _, _, _)

\* the results r of a group's body, with the group's span recorded
Captured(r, g, from) ==
  [i \in 1..Len(r) |-> [r[i] EXCEPT !.caps[g] = << from, r[i].pos >>]]

Run(n, text, st) ==
  CASE n.k = "chr" ->
         IF st.pos < Len(text) /\ text[st.pos + 1] \in n.cs
           THEN << [st EXCEPT !.pos = @ + 1] >>
           ELSE << >>
    [] n.k = "bol" -> IF st.pos = 0 THEN << st >> ELSE << >>
    [] n.k = "eol" -> IF st.pos = Len(text) THEN << st >> ELSE << >>
    [] n.k = "cat" -> RunCat(n.subs, 1, text, << st >>)
    [] n.k = "alt" -> RunAlt(n.subs, 1, text, st)
    [] n.k = "rep" -> RunRep(n.subs[1], n.lo, n.hi, text, st)
    [] n.k = "grp" ->
         CHOOSE out \in {Captured(r, n.g, st.pos) :
                            r \in {Run(n.subs[1], text, st)}} : TRUE

\* node n run from each of the states sts, in order
RunMany(n, text, sts) ==
  IF sts = << >> THEN << >>
  ELSE Run(n, text, Head(sts)) \o RunMany(n, text, Tail(sts))

RunCat(subs, i, text, sts) ==
  IF i > Len(subs) THEN sts
  ELSE CHOOSE out \in {RunCat(subs, i + 1, text, next) :
                          next \in {RunMany(subs[i], text, sts)}} : TRUE

RunAlt(subs, i, text, st) ==
  IF i > Len(subs) THEN << >>
  ELSE Run(subs[i], text, st) \o RunAlt(subs, i + 1, text, st)

\* the quantifier run from each of the states sts, in order
RECURSIVE RunRepMany(_, _, _, _, _)
RunRepMany(sub, lo, hi, text, sts) ==
  IF sts = << >> THEN << >>
  ELSE RunRep(sub, lo, hi, text, Head(sts))
         \o RunRepMany(sub, lo, hi, text, Tail(sts))

\* a greedy quantifier: one more iteration is preferred to stopping; an
\* iteration that consumes nothing is refused once lo iterations are done
RunRep(sub, lo, hi, text, st) ==
  IF hi = 0 THEN << st >>
  ELSE CHOOSE out \in
         {RunRepMany(sub, IF lo > 0 THEN lo - 1 ELSE 0,
                     IF hi = Unbounded THEN Unbounded ELSE hi - 1, text, once)
            \o (IF lo = 0 THEN << st >> ELSE << >>) :
          once \in {SelectSeq(Run(sub, text, st),
                              LAMBDA s : s.pos > st.pos \/ lo > 0)}} : TRUE

\* a value no text equals: the result of a failed match
NoMatch == [found |-> FALSE, index |-> -1, caps |-> << >>]

\* the result of a match that starts at from and ends in state st
Found(regex, from, st) ==
  [found |-> TRUE, index |-> from,
   caps |-> [g \in 0..regex.groups |->
               IF g = 0 THEN << from, st.pos >> ELSE st.caps[g]]]

\* the first start position from which the tree matches, from position from on
RECURSIVE MatchFrom(_, _, _)
MatchFrom(regex, text, from) ==
  IF from > Len(text) THEN NoMatch
  ELSE CHOOSE out \in
         {IF r # << >> THEN Found(regex, from, r[1])
          ELSE MatchFrom(regex, text, from + 1) :
          r \in {Run(regex.tree, text,
                     [pos |-> from,
                      caps |-> [g \in 1..regex.groups |-> NoSpan]])}} : TRUE

\* text.match(regex) for a regex without the g flag
Match(regex, text) == MatchFrom(regex, text, 0)

\* the text of a span
Slice(text, span) == SubSeq(text, span[1] + 1, span[2])

\* text.indexOf(s): the first position at which s occurs, -1 when none
RECURSIVE IndexOfFrom(_, _, _)
IndexOfFrom(text, s, from) ==
  IF from + Len(s) > Len(text) THEN -1
  ELSE IF SubSeq(text, from + 1, from + Len(s)) = s THEN from
  ELSE IndexOfFrom(text, s, from + 1)
IndexOf(text, s) == IndexOfFrom(text, s, 0)

\* text.substr(from)
Substr(text, from) == SubSeq(text, from + 1, Len(text))

(***************************************************************************)
(* strictUrlRegex, the pattern of the built-in matcher.                    *)
(***************************************************************************)
\* [\da-z\.-]
domainCharacterSet == Digit \cup Lower \cup {".", "-"}
\* [^\da-z\.-]
negatedDomainCharacterSet == AnyChar \ domainCharacterSet
\* [\/\w\.\-%~]
pathCharacterSet == WordChar \cup {"/", ".", "-", "%", "~"}
\* [^\/\w\.\-%]
negatedPathCharacterSet == AnyChar \ (WordChar \cup {"/", ".", "-", "%"})
\* the class shared by the query string and the hash fragment (line 22)
queryStringHashFragmentCharacterSet ==
  WordChar \cup {"[", "]", "(", ")", "/", "?", "!", "#", "@", "$", "%", "&",
                 "'", "*", "+", ",", ":", ";", "~", "=", ".", "-"}

\* (https?:\/\/)
protocolClause ==
  Grp(2, Cat(<< Str(<<"h", "t", "t", "p">>), Rep(Lit("s"), 0, 1),
                Lit(":"), Lit("/"), Lit("/") >>))
\* ([\da-z\.-]+)
domainBodyClause == Grp(5, Rep(Chr(domainCharacterSet), 1, Unbounded))
\* ([a-z\.]{2,6})
tldClause == Grp(6, Rep(Chr(Lower \cup {"."}), 2, 6))
\* ((\d{1,3}\.){3}\d{1,3})
ipClause ==
  Grp(7, Cat(<< Rep(Grp(8, Cat(<< Rep(Chr(Digit), 1, 3), Lit(".") >>)), 3, 3),
                Rep(Chr(Digit), 1, 3) >>))
\* (localhost)
localHostClause ==
  Grp(9, Str(<<"l", "o", "c", "a", "l", "h", "o", "s", "t">>))
\* (:\d{1,5})
portClause == Grp(10, Cat(<< Lit(":"), Rep(Chr(Digit), 1, 5) >>))
hostClause ==
  Cat(<< Grp(3, Alt(<< Grp(4, Cat(<< domainBodyClause, Lit("."), tldClause >>)),
                       ipClause,
                       localHostClause >>)),
         Rep(portClause, 0, 1) >>)
\* (\/[\/\w\.\-%~]*)*
pathClause ==
  Rep(Grp(11, Cat(<< Lit("/"), Rep(Chr(pathCharacterSet), 0, Unbounded) >>)),
      0, Unbounded)
queryStringClause ==
  Rep(Grp(12, Cat(<< Lit("?"),
                     Rep(Chr(queryStringHashFragmentCharacterSet), 0, Unbounded) >>)),
      0, 1)
hashFragmentClause ==
  Rep(Grp(13, Cat(<< Lit("#"),
                     Rep(Chr(queryStringHashFragmentCharacterSet), 0, Unbounded) >>)),
      0, 1)
bodyClause ==
  Cat(<< hostClause, pathClause, queryStringClause, hashFragmentClause >>)
strictUrlRegex ==
  [groups |-> 14,
   tree |-> Cat(<< Alt(<< Bol, Rep(Chr(negatedDomainCharacterSet), 1, Unbounded) >>),
                   Grp(1, Cat(<< protocolClause, bodyClause >>)),
                   Grp(14, Alt(<< Eol,
                                  Rep(Chr(negatedPathCharacterSet), 1, Unbounded) >>)) >>)]


(***************************************************************************)
(* The regular expressions of the model, by name.  A matcher's regex field *)
(* holds the name.                                                         *)
(***************************************************************************)
\* /bb/
bbRegex == [groups |-> 0, tree |-> Str(<<"b", "b">>)]
\* /a(b)/ : leading context, the link text is group 1
ctxRegex == [groups |-> 1, tree |-> Cat(<< Lit("a"), Grp(1, Lit("b")) >>)]
\* /b*/ : may match the empty string
starRegex == [groups |-> 0, tree |-> Rep(Lit("b"), 0, Unbounded)]
\* /(x?)bb/ : group 1 may be empty
optRegex ==
  [groups |-> 1, tree |-> Cat(<< Grp(1, Rep(Lit("x"), 0, 1)), Str(<<"b", "b">>) >>)]

RegexOf(name) ==
  CASE name = "strictUrlRegex" -> strictUrlRegex
    [] name = "bb" -> bbRegex
    [] name = "ctx" -> ctxRegex
    [] name = "star" -> starRegex
    [] name = "opt" -> optRegex

(***************************************************************************)
(* The row texts of the model, and String.prototype.match tabulated over   *)
(* them and their remainders.                                              *)
(***************************************************************************)
\* "bb http://a.bc"
UrlRow == <<"b", "b", " ", "h", "t", "t", "p", ":", "/", "/", "a", ".", "b", "c">>
\* "abb"
ShortRow == <<"a", "b", "b">>
\* "bb abb"
TwiceRow == <<"b", "b", " ", "a", "b", "b">>
\* "b ab"
EarlierRow == <<"b", " ", "a", "b">>
\* "bbbbb bb"
OverlapRow == <<"b", "b", "b", "b", "b", " ", "b", "b">>
RowTexts == {UrlRow, ShortRow, TwiceRow, EarlierRow, OverlapRow, << >>}
RegexNames == {"strictUrlRegex", "bb", "ctx", "star", "opt"}
Remainders == {Substr(t, i) : t \in RowTexts, i \in 0..MaxTextLen}
MatchTable ==
  [nt \in RegexNames \X Remainders |-> Match(RegexOf(nt[1]), nt[2])] @@ << >>

(***************************************************************************)
(* Values.                                                                 *)
(***************************************************************************)
\* null or undefined, for a handler or a callback
Null == "null"
\* a matchIndex that is not a number
NoIndex == -1
\* the falsy _rowsTimeoutId
NoTimer == 0
HYPERTEXT_LINK_MATCHER_ID == 0

VARIABLES
  linkMatchers,       \* _linkMatchers: the registry, a sequence of matchers
  nextLinkMatcherId,  \* _nextLinkMatcherId
  mouseZoneManager,   \* _mouseZoneManager: Null until attachToDom
  rowsTimeoutId,      \* _rowsTimeoutId
  buffer,             \* _terminal.buffer: [ydisp, lines]
  timers,             \* the host's armed timers: [id, start, end]
  nextTimerId,        \* the id the host's next setTimeout returns
  zones,              \* the zones the mouse zone manager holds, in add order
  inflight,           \* validation completion functions not yet invoked
  lastCall,           \* history: the registry call this step made (NoCall when none), its result, the registry before it
  reqHist,            \* history: counts of the linkifyRows calls and passes, the latest request
  lastPass,           \* history: what the last _linkifyRows pass did
  staleAdded,         \* history: a zone was added for an occurrence found before a later linkifyRows
  lastDone            \* history: the validation results this step delivered (NoDone when none), the zones before it

vars == << linkMatchers, nextLinkMatcherId, mouseZoneManager, rowsTimeoutId,
           buffer, timers, nextTimerId, zones, inflight, lastCall, reqHist,
           lastPass, staleAdded, lastDone >>

registryVars == << linkMatchers, nextLinkMatcherId >>
schedVars == << mouseZoneManager, rowsTimeoutId, timers, nextTimerId, zones,
                inflight, reqHist, lastPass, staleAdded >>

(***************************************************************************)
(* The registry.                                                           *)
(***************************************************************************)
InsertAt(list, i, x) == SubSeq(list, 1, i) \o << x >> \o SubSeq(list, i + 1, Len(list))
RemoveAt(list, i) == SubSeq(list, 1, i - 1) \o SubSeq(list, i + 1, Len(list))

\* _addLinkMatcherToList: from the end, after the first entry met whose
\* priority is not below the new one's; at the front when there is none
addLinkMatcherToListTieBefore(list, matcher) ==
  LET after == {i \in 1..Len(list) : matcher.priority < list[i].priority}
  IN  IF after = {} THEN InsertAt(list, 0, matcher)
      ELSE InsertAt(list, CHOOSE i \in after : \A j \in after : j <= i, matcher)
addLinkMatcherToList(list, matcher) ==
  LET after == {i \in 1..Len(list) : matcher.priority <= list[i].priority}
  IN  IF after = {} THEN InsertAt(list, 0, matcher)
      ELSE InsertAt(list, CHOOSE i \in after : \A j \in after : j <= i, matcher)

\* the matcher registerLinkMatcher builds
NewMatcher(id, regex, handler, options) ==
  [id |-> id, regex |-> regex, handler |-> handler,
   matchIndex |-> options.matchIndex,
   validationCallback |-> options.validationCallback,
   priority |-> options.priority]

\* registerLinkMatcher on registry list with next id next: the list, the next
\* id and the result (the new id, or -1 for the thrown Error)
registerLinkMatcherIdFromLength(list, next, regex, handler, options) ==
  IF next # HYPERTEXT_LINK_MATCHER_ID /\ handler = Null
    THEN [list |-> list, next |-> next, ret |-> -1]
    ELSE [list |-> addLinkMatcherToList(list, NewMatcher(Len(list), regex, handler,
                                                         options)),
          next |-> next + 1, ret |-> Len(list)]
registerLinkMatcherNoCheck(list, next, regex, handler, options) ==
  [list |-> addLinkMatcherToList(list, NewMatcher(next, regex, handler, options)),
   next |-> next + 1, ret |-> next]
registerLinkMatcher(list, next, regex, handler, options) ==
  IF next # HYPERTEXT_LINK_MATCHER_ID /\ handler = Null
    THEN [list |-> list, next |-> next, ret |-> -1]
    ELSE [list |-> addLinkMatcherToList(list, NewMatcher(next, regex, handler, options)),
          next |-> next + 1, ret |-> next]

\* deregisterLinkMatcher: the first entry from the second on with this id
deregisterLinkMatcher(list, matcherId) ==
  LET hits == {i \in 2..Len(list) : list[i].id = matcherId}
  IN  IF hits = {} THEN [list |-> list, ret |-> FALSE]
      ELSE [list |-> RemoveAt(list, CHOOSE i \in hits : \A j \in hits : i <= j),
            ret |-> TRUE]

\* setHypertextLinkHandler, setHypertextValidationCallback: the entry at
\* index HYPERTEXT_LINK_MATCHER_ID of the list
setHypertextLinkHandler(list, handler) ==
  [list EXCEPT ![HYPERTEXT_LINK_MATCHER_ID + 1].handler = handler]
setHypertextValidationCallback(list, callback) ==
  [list EXCEPT ![HYPERTEXT_LINK_MATCHER_ID + 1].validationCallback = callback]


(***************************************************************************)
(* Scanning a row.  The log of a pass is the sequence of its events:       *)
(*   "row"   _linkifyRow(y) was called                                     *)
(*   "text"  the text of row y was fetched from the buffer                 *)
(*   "scan"  _doLinkifyRow(y, text, matcher id) was called from _linkifyRow*)
(*   "occ"   an occurrence: link text uri at column x of row y; validate   *)
(*           is the matcher's validation callback (Null: the zone is added *)
(*           at once), text the text the callback is given                 *)
(* err says that the pass was ended by the host's RangeError.              *)
(***************************************************************************)
Ev(e, y, id, x, uri, text, validate) ==
  [e |-> e, y |-> y, id |-> id, x |-> x, uri |-> uri, text |-> text,
   validate |-> validate]
NoLog == [log |-> << >>, err |-> FALSE]

\* the log of a call followed by the log of what ran after it
Then(first, rest) == [log |-> first \o rest.log, err |-> rest.err]

\* _doLinkifyRow, called at stack depth depth
RECURSIVE doLinkifyRow(_, _, _, _, _)
RECURSIVE doLinkifyRowMatched(_, _, _, _, _, _, _)
doLinkifyRowMatchedOverlap(rowIndex, text, matcher, offset, depth, uri, index) ==
  LET remainingStartIndex == index + 1
      remainingText == Substr(text, remainingStartIndex)
  IN  Then(<< Ev("occ", rowIndex, matcher.id, offset + index, uri, text,
                 matcher.validationCallback) >>,
           IF Len(remainingText) > 0
             THEN doLinkifyRow(rowIndex, remainingText, matcher,
                               offset + remainingStartIndex, depth + 1)
             ELSE NoLog)
doLinkifyRowMatched(rowIndex, text, matcher, offset, depth, uri, index) ==
  LET remainingStartIndex == index + Len(uri)
      remainingText == Substr(text, remainingStartIndex)
  IN  Then(<< Ev("occ", rowIndex, matcher.id, offset + index, uri, text,
                 matcher.validationCallback) >>,
           IF Len(remainingText) > 0
             THEN doLinkifyRow(rowIndex, remainingText, matcher,
                               offset + remainingStartIndex, depth + 1)
             ELSE NoLog)
doLinkifyRowAtMatchIndex(rowIndex, text, matcher, offset, depth) ==
  IF depth > StackLimit THEN [log |-> << >>, err |-> TRUE]
  ELSE
    LET match == MatchTable[<< matcher.regex, text >>]
    IN  IF ~match.found THEN NoLog
        ELSE CHOOSE out \in
               {doLinkifyRowMatched(rowIndex, text, matcher, offset, depth,
                                    uri, match.index) :
                uri \in {Slice(text, match.caps[IF matcher.matchIndex = NoIndex
                                                  THEN 0
                                                  ELSE matcher.matchIndex])}} : TRUE
doLinkifyRow(rowIndex, text, matcher, offset, depth) ==
  IF depth > StackLimit THEN [log |-> << >>, err |-> TRUE]
  ELSE
    LET match == MatchTable[<< matcher.regex, text >>]
    IN  IF ~match.found THEN NoLog
        ELSE CHOOSE out \in
               {doLinkifyRowMatched(rowIndex, text, matcher, offset, depth,
                                    uri, IndexOf(text, uri)) :
                uri \in {Slice(text, match.caps[IF matcher.matchIndex = NoIndex
                                                  THEN 0
                                                  ELSE matcher.matchIndex])}} : TRUE

\* the loop of _linkifyRow over the matchers list, from its i-th entry on
RECURSIVE scanMatchers(_, _, _, _)
RECURSIVE scanMatchersBackwards(_, _, _, _)
scanMatchersBackwards(list, rowIndex, text, i) ==
  IF i > Len(list) THEN NoLog
  ELSE CHOOSE out \in
         {Then(<< Ev("scan", rowIndex, list[Len(list) + 1 - i].id, 0, << >>, text,
                     Null) >>
                 \o one.log,
               IF one.err THEN [log |-> << >>, err |-> TRUE]
               ELSE scanMatchersBackwards(list, rowIndex, text, i + 1)) :
          one \in {doLinkifyRow(rowIndex, text, list[Len(list) + 1 - i], 0, 1)}} : TRUE
scanMatchers(list, rowIndex, text, i) ==
  IF i > Len(list) THEN NoLog
  ELSE CHOOSE out \in
         {Then(<< Ev("scan", rowIndex, list[i].id, 0, << >>, text, Null) >>
                 \o one.log,
               IF one.err THEN [log |-> << >>, err |-> TRUE]
               ELSE scanMatchers(list, rowIndex, text, i + 1)) :
          one \in {doLinkifyRow(rowIndex, text, list[i], 0, 1)}} : TRUE

\* whether _linkifyRow leaves row rowIndex alone
rowBeyondBufferOffByOne(buf, rowIndex) == buf.ydisp + rowIndex > Len(buf.lines)
rowBeyondBuffer(buf, rowIndex) == buf.ydisp + rowIndex >= Len(buf.lines)

\* translateBufferLineToString of the buffer: the text of a line
translateBufferLineToString(buf, absoluteRowIndex) ==
  IF absoluteRowIndex < Len(buf.lines) THEN buf.lines[absoluteRowIndex + 1]
  ELSE << >>

\* _linkifyRow
linkifyRow(list, buf, rowIndex) ==
  LET called == << Ev("row", rowIndex, 0, 0, << >>, << >>, Null) >>
      absoluteRowIndex == buf.ydisp + rowIndex
      text == translateBufferLineToString(buf, absoluteRowIndex)
  IN  IF rowBeyondBuffer(buf, rowIndex) THEN [log |-> called, err |-> FALSE]
      ELSE Then(called \o << Ev("text", rowIndex, 0, 0, << >>, text, Null) >>,
                scanMatchers(list, rowIndex, text, 1))

\* the loop of _linkifyRows, from row i on
RECURSIVE linkifyRowsFrom(_, _, _, _)
RECURSIVE linkifyRowsFromExclusive(_, _, _, _)
linkifyRowsFromExclusive(list, buf, i, end) ==
  IF i >= end THEN NoLog
  ELSE CHOOSE out \in
         {Then(one.log,
               IF one.err THEN [log |-> << >>, err |-> TRUE]
               ELSE linkifyRowsFromExclusive(list, buf, i + 1, end)) :
          one \in {linkifyRow(list, buf, i)}} : TRUE
linkifyRowsFrom(list, buf, i, end) ==
  IF i > end THEN NoLog
  ELSE CHOOSE out \in
         {Then(one.log,
               IF one.err THEN [log |-> << >>, err |-> TRUE]
               ELSE linkifyRowsFrom(list, buf, i + 1, end)) :
          one \in {linkifyRow(list, buf, i)}} : TRUE

\* the MouseZone _addLink registers
addLinkZeroBased(x, y, uri, matcher) ==
  [x1 |-> x, x2 |-> x + Len(uri), y |-> y, uri |-> uri, id |-> matcher]
addLink(x, y, uri, matcher) ==
  [x1 |-> x + 1, x2 |-> x + 1 + Len(uri), y |-> y + 1, uri |-> uri, id |-> matcher]


(***************************************************************************)
(* Inputs.                                                                 *)
(***************************************************************************)
Buffers == {[ydisp |-> d, lines |-> << UrlRow, ShortRow >>] : d \in 0..2}

Options(matchIndex, validationCallback, priority) ==
  [matchIndex |-> matchIndex, validationCallback |-> validationCallback,
   \* options.priority || 0
   priority |-> IF priority = 0 THEN 0 ELSE priority]

Handlers == {Null, "h"}
Callbacks == {Null, "v"}

(***************************************************************************)
(* History records.                                                        *)
(***************************************************************************)
Call(op, id, fn, ok, ret) ==
  [op |-> op, id |-> id, fn |-> fn, ok |-> ok, ret |-> ret,
   pre |-> linkMatchers, preNext |-> nextLinkMatcherId]
NoCall ==
  [op |-> "none", id |-> 0, fn |-> Null, ok |-> TRUE, ret |-> 0, pre |-> << >>,
   preNext |-> 0]
\* calls: linkifyRows calls; attached: those made on an attached engine;
\* superseded: those of them followed by another before their timer fired;
\* passes: _linkifyRows passes run; pending: the latest attached call's timer
\* has not fired; start, end, timer: the latest attached call's range and the
\* timer id it was given
NoRequests ==
  [calls |-> 0, attached |-> 0, superseded |-> 0, passes |-> 0,
   pending |-> FALSE, start |-> 0, end |-> 0, timer |-> NoTimer]
\* timer, start, end: the timer that ran the pass and the range bound to it;
\* latest, reqStart, reqEnd: whether that timer was the one given to the
\* latest attached linkifyRows call, and the range of that call
NoPass ==
  [timer |-> NoTimer, start |-> 0, end |-> 0, latest |-> TRUE, reqStart |-> 0,
   reqEnd |-> 0, log |-> << >>, err |-> FALSE]
\* op: "pass" for a _linkifyRows pass, "complete" for a completion function
\* invoked after its pass; idle: no timer was armed when the results were
\* delivered; occs: the occurrences concerned, in order; conduct: for each,
\* "none" (no validation callback), "true" or "false" (the boolean delivered)
\* or "later" (nothing delivered yet); pre: the zones before the step
NoDone ==
  [op |-> "none", idle |-> TRUE, occs |-> << >>, conduct |-> << >>,
   pre |-> << >>]

(***************************************************************************)
(* Init: the state the constructor leaves.                                 *)
(***************************************************************************)
Constructed ==
  registerLinkMatcher(<< >>, HYPERTEXT_LINK_MATCHER_ID, "strictUrlRegex", Null,
                      Options(1, Null, 0))

Init ==
  /\ linkMatchers = Constructed.list
  /\ nextLinkMatcherId = Constructed.next
  /\ mouseZoneManager = Null
  /\ rowsTimeoutId = NoTimer
  /\ buffer \in Buffers
  /\ timers = {}
  /\ nextTimerId = 1
  /\ zones = << >>
  /\ inflight = {}
  /\ lastCall = NoCall
  /\ reqHist = NoRequests
  /\ lastPass = NoPass
  /\ staleAdded = FALSE
  /\ lastDone = NoDone

(***************************************************************************)
(* The public operations.                                                  *)
(***************************************************************************)
AttachToDom ==
  /\ mouseZoneManager' = "sink"
  /\ lastCall' = NoCall
  /\ lastDone' = NoDone
  /\ UNCHANGED << registryVars, buffer, rowsTimeoutId, timers, nextTimerId,
                  zones, inflight, reqHist, lastPass, staleAdded >>

\* clearTimeout(old) when old is truthy, then setTimeout: the host's timers
rearmNoClear(ts, old, new) == ts \cup {new}
rearm(ts, old, new) == {t \in ts : old = NoTimer \/ t.id # old} \cup {new}

\* the test that makes linkifyRows return at once
notAttachedNever(manager) == FALSE
notAttached(manager) == manager = Null

LinkifyRows(start, end) ==
  /\ reqHist.calls < MaxRequests
  /\ lastCall' = NoCall
  /\ lastDone' = NoDone
  /\ IF notAttached(mouseZoneManager)
       THEN /\ reqHist' = [reqHist EXCEPT !.calls = @ + 1]
            /\ UNCHANGED << registryVars, buffer, mouseZoneManager, rowsTimeoutId,
                            timers, nextTimerId, zones, inflight, lastPass,
                            staleAdded >>
       ELSE /\ zones' = << >>
            /\ timers' = rearm(timers, rowsTimeoutId,
                               [id |-> nextTimerId, start |-> start, end |-> end])
            /\ rowsTimeoutId' = nextTimerId
            /\ nextTimerId' = nextTimerId + 1
            /\ inflight' = {[c EXCEPT !.stale = TRUE] : c \in inflight}
            /\ reqHist' = [reqHist EXCEPT
                             !.calls = @ + 1,
                             !.attached = @ + 1,
                             !.superseded = IF reqHist.pending THEN @ + 1 ELSE @,
                             !.pending = TRUE,
                             !.start = start, !.end = end,
                             !.timer = nextTimerId]
            /\ UNCHANGED << registryVars, buffer, mouseZoneManager, lastPass,
                            staleAdded >>

SetHypertextLinkHandler(handler) ==
  /\ linkMatchers' = setHypertextLinkHandler(linkMatchers, handler)
  /\ lastCall' = Call("setHypertextLinkHandler", 0, handler, TRUE, 0)
  /\ lastDone' = NoDone
  /\ UNCHANGED << nextLinkMatcherId, buffer, schedVars >>

SetHypertextValidationCallback(callback) ==
  /\ linkMatchers' = setHypertextValidationCallback(linkMatchers, callback)
  /\ lastCall' = Call("setHypertextValidationCallback", 0, callback, TRUE, 0)
  /\ lastDone' = NoDone
  /\ UNCHANGED << nextLinkMatcherId, buffer, schedVars >>

\* maxId keeps the ids handed out below a bound of the model
RegisterLinkMatcher(regex, handler, options, maxId) ==
  LET r == registerLinkMatcher(linkMatchers, nextLinkMatcherId, regex, handler, options)
  IN  /\ r.next <= maxId
      /\ linkMatchers' = r.list
      /\ nextLinkMatcherId' = r.next
      /\ lastCall' = Call("registerLinkMatcher", options.priority, handler,
                          r.ret # -1, r.ret)
      /\ lastDone' = NoDone
      /\ UNCHANGED << buffer, schedVars >>

DeregisterLinkMatcher(matcherId) ==
  LET r == deregisterLinkMatcher(linkMatchers, matcherId)
  IN  /\ linkMatchers' = r.list
      /\ lastCall' = Call("deregisterLinkMatcher", matcherId, Null, r.ret, 0)
      /\ lastDone' = NoDone
      /\ UNCHANGED << nextLinkMatcherId, buffer, schedVars >>

(***************************************************************************)
(* The timer and the validation callbacks.                                 *)
(***************************************************************************)
\* the entries of seq at the indexes in keep, in order
RECURSIVE Pick(_, _, _)
Pick(seq, keep, i) ==
  IF i > Len(seq) THEN << >>
  ELSE (IF i \in keep THEN << seq[i] >> ELSE << >>) \o Pick(seq, keep, i + 1)

\* the rows _linkifyRow was called for, in call order
RowsOf(log) ==
  LET rows == SelectSeq(log, LAMBDA ev : ev.e = "row")
  IN  [i \in 1..Len(rows) |-> rows[i].y]

\* the test of the completion function: whether it drops its result
discardAlways(timeoutId) == TRUE
discardNever(timeoutId) == FALSE
discard(timeoutId) == timeoutId # NoTimer

\* what a pass does with its occurrences occs: conduct says, for each gated
\* one, what its validation callback does.  A completion function invoked
\* inside the pass tests the _rowsTimeoutId the pass began by clearing.
PassEffect(t, occs, gated, conduct) ==
  LET later == {i \in gated : conduct[i] = "later"}
      added == {i \in 1..Len(occs) :
                  \/ i \notin gated
                  \/ conduct[i] = "true" /\ ~discard(rowsTimeoutId')}
  IN  /\ Cardinality(inflight) + Cardinality(later) <= MaxInflight
      /\ lastDone' = [op |-> "pass", idle |-> (timers' = {}),
                      occs |-> [i \in 1..Len(occs) |->
                                  [x |-> occs[i].x, y |-> occs[i].y,
                                   uri |-> occs[i].uri, id |-> occs[i].id]],
                      conduct |-> [i \in 1..Len(occs) |->
                                     IF i \in gated THEN conduct[i] ELSE "none"],
                      pre |-> zones]
      /\ zones' = zones \o [i \in 1..Cardinality(added) |->
                              LET o == Pick(occs, added, 1)[i]
                              IN  addLink(o.x, o.y, o.uri, o.id)]
      /\ inflight' = inflight \cup
           {[timer |-> t.id, k |-> i, x |-> occs[i].x, y |-> occs[i].y,
             uri |-> occs[i].uri, id |-> occs[i].id, stale |-> FALSE]
              : i \in later}

\* _linkifyRows(start, end) run by the host for an armed timer t.  Every
\* validation callback invoked in the pass completes inside its call with
\* true or false, or keeps its completion function for later.
TimerFire(t) ==
  /\ t \in timers
  /\ timers' = timers \ {t}
  /\ rowsTimeoutId' = NoTimer
  /\ \E pass \in {linkifyRowsFrom(linkMatchers, buffer, t.start, t.end)} :
       /\ \E occs \in {SelectSeq(pass.log, LAMBDA ev : ev.e = "occ")} :
            \E gated \in {{i \in 1..Len(occs) : occs[i].validate # Null}} :
              \E conduct \in [gated -> {"true", "false", "later"}] :
                PassEffect(t, occs, gated, conduct)
       /\ lastPass' = [timer |-> t.id, start |-> t.start, end |-> t.end,
                       latest |-> (t.id = reqHist.timer),
                       reqStart |-> reqHist.start, reqEnd |-> reqHist.end,
                       log |-> pass.log, err |-> pass.err]
  /\ reqHist' = [reqHist EXCEPT
                   !.passes = @ + 1,
                   !.pending = IF t.id = reqHist.timer THEN FALSE ELSE @]
  /\ lastCall' = NoCall
  /\ UNCHANGED << registryVars, buffer, mouseZoneManager, nextTimerId,
                  staleAdded >>

\* a validation callback invokes the completion function c with isValid
Complete(c, isValid) ==
  /\ c \in inflight
  /\ inflight' = inflight \ {c}
  /\ IF ~discard(rowsTimeoutId) /\ isValid
       THEN /\ zones' = Append(zones, addLink(c.x, c.y, c.uri, c.id))
            /\ staleAdded' = (staleAdded \/ c.stale)
       ELSE UNCHANGED << zones, staleAdded >>
  /\ lastDone' = [op |-> "complete", idle |-> (timers = {}),
                  occs |-> << [x |-> c.x, y |-> c.y, uri |-> c.uri, id |-> c.id] >>,
                  conduct |-> << IF isValid THEN "true" ELSE "false" >>,
                  pre |-> zones]
  /\ lastCall' = NoCall
  /\ UNCHANGED << registryVars, buffer, mouseZoneManager, rowsTimeoutId, timers,
                  nextTimerId, reqHist, lastPass >>

(***************************************************************************)
(* Spec: the whole engine, with at most one custom matcher at a time.      *)
(***************************************************************************)
Next ==
  \/ AttachToDom
  \/ \E start \in 0..MaxRow, end \in 0..MaxRow : LinkifyRows(start, end)
  \/ \E v \in Callbacks, p \in {0, 1} :
       RegisterLinkMatcher("bb", "h", Options(NoIndex, v, p), MaxMatcherId)
  \/ \E id \in 0..(MaxMatcherId - 1) : DeregisterLinkMatcher(id)
  \/ \E t \in timers : TimerFire(t)
  \/ \E c \in inflight, isValid \in BOOLEAN : Complete(c, isValid)

Spec == Init /\ [][Next]_vars

(***************************************************************************)
(* SpecRegistry: the registry operations alone, with more matchers and     *)
(* priorities of either sign.                                              *)
(***************************************************************************)
Priorities == {-1, 0, 1}

NextRegistry ==
  \/ \E h \in Handlers, p \in Priorities :
       RegisterLinkMatcher("bb", h, Options(NoIndex, Null, p), RegMaxMatcherId)
  \/ \E id \in 0..(RegMaxMatcherId - 1) : DeregisterLinkMatcher(id)
  \/ \E h \in Handlers : SetHypertextLinkHandler(h)
  \/ \E v \in Callbacks : SetHypertextValidationCallback(v)

SpecRegistry == Init /\ [][NextRegistry]_vars

(***************************************************************************)
(* SpecScan: scan passes of an attached engine whose registry holds the    *)
(* built-in matcher and one custom matcher, over more patterns and rows;   *)
(* every request starts at row 0.                                          *)
(***************************************************************************)
ScanBuffers ==
  {[ydisp |-> 0, lines |-> << TwiceRow, EarlierRow >>],
   [ydisp |-> 0, lines |-> << UrlRow, << >> >>],
   [ydisp |-> 0, lines |-> << OverlapRow, ShortRow >>]}
\* the regex, matchIndex and validationCallback of the custom matcher
ScanPatterns ==
  {<< "bb", NoIndex, Null >>, << "bb", NoIndex, "v" >>,
   << "ctx", 1, Null >>, << "ctx", 1, "v" >>,
   << "star", NoIndex, Null >>, << "opt", 1, Null >>}

InitScan ==
  /\ \E pat \in ScanPatterns, p \in {0, 1} :
       LET r == registerLinkMatcher(Constructed.list, Constructed.next, pat[1],
                                    "h", Options(pat[2], pat[3], p))
       IN  /\ linkMatchers = r.list
           /\ nextLinkMatcherId = r.next
  /\ mouseZoneManager = "sink"
  /\ rowsTimeoutId = NoTimer
  /\ buffer \in ScanBuffers
  /\ timers = {}
  /\ nextTimerId = 1
  /\ zones = << >>
  /\ inflight = {}
  /\ lastCall = NoCall
  /\ reqHist = NoRequests
  /\ lastPass = NoPass
  /\ staleAdded = FALSE
  /\ lastDone = NoDone

NextScan ==
  \/ /\ reqHist.calls < ScanMaxRequests
     /\ \E end \in 0..MaxRow : LinkifyRows(0, end)
  \/ \E t \in timers : TimerFire(t)
  \/ \E c \in inflight, isValid \in BOOLEAN : Complete(c, isValid)

SpecScan == InitScan /\ [][NextScan]_vars


(***************************************************************************)
(* SpecSched: the scheduler of an engine whose registry is fixed: the      *)
(* built-in matcher and one custom matcher, registered before attachment.  *)
(***************************************************************************)
InitSched ==
  /\ \E v \in Callbacks, p \in {0, 1}, b \in Callbacks :
       LET r == registerLinkMatcher(Constructed.list, Constructed.next, "bb",
                                    "h", Options(NoIndex, v, p))
       IN  /\ linkMatchers = IF b = Null THEN r.list
                             ELSE setHypertextValidationCallback(r.list, b)
           /\ nextLinkMatcherId = r.next
  /\ mouseZoneManager = Null
  /\ rowsTimeoutId = NoTimer
  /\ buffer \in Buffers
  /\ timers = {}
  /\ nextTimerId = 1
  /\ zones = << >>
  /\ inflight = {}
  /\ lastCall = NoCall
  /\ reqHist = NoRequests
  /\ lastPass = NoPass
  /\ staleAdded = FALSE
  /\ lastDone = NoDone

NextSched ==
  \/ AttachToDom
  \/ \E start \in 0..MaxRow, end \in 0..MaxRow : LinkifyRows(start, end)
  \/ \E t \in timers : TimerFire(t)
  \/ \E c \in inflight, isValid \in BOOLEAN : Complete(c, isValid)

SpecSched == InitSched /\ [][NextSched]_vars

(***************************************************************************)
(* SpecTimerFair: the debounce timer alone, on an engine none of whose     *)
(* matchers has a validation callback, so that no completion function is   *)
(* ever outstanding.  The host runs the callback of an armed timer once    *)
(* its delay has passed: weak fairness of TimerFire.                       *)
(***************************************************************************)
InitTimer ==
  /\ \E p \in {0, 1} :
       LET r == registerLinkMatcher(Constructed.list, Constructed.next, "bb",
                                    "h", Options(NoIndex, Null, p))
       IN  /\ linkMatchers = r.list
           /\ nextLinkMatcherId = r.next
  /\ mouseZoneManager = Null
  /\ rowsTimeoutId = NoTimer
  /\ buffer \in Buffers
  /\ timers = {}
  /\ nextTimerId = 1
  /\ zones = << >>
  /\ inflight = {}
  /\ lastCall = NoCall
  /\ reqHist = NoRequests
  /\ lastPass = NoPass
  /\ staleAdded = FALSE
  /\ lastDone = NoDone

NextTimer ==
  \/ AttachToDom
  \/ \E start \in 0..MaxRow, end \in 0..MaxRow : LinkifyRows(start, end)
  \/ \E t \in timers : TimerFire(t)

SpecTimerFair ==
  InitTimer /\ [][NextTimer]_vars /\ WF_vars(\E t \in timers : TimerFire(t))


(***************************************************************************)
(* Properties.                                                             *)
(***************************************************************************)
Ids(list) == {list[i].id : i \in 1..Len(list)}
\* list without its entries of this id, the others in their order
Without(list, id) == SelectSeq(list, LAMBDA m : m.id # id)
\* a..b in order
Range(a, b) == [i \in 1..(b - a + 1) |-> a + i - 1]

\* C1: the built-in matcher is never removable: a deregisterLinkMatcher(0)
\* call returns false and leaves the entry with id 0 in the registry.
C1_BuiltinNeverRemoved ==
  (lastCall.op = "deregisterLinkMatcher" /\ lastCall.id = HYPERTEXT_LINK_MATCHER_ID)
    => (~lastCall.ok /\ HYPERTEXT_LINK_MATCHER_ID \in Ids(linkMatchers))

\* C2: an occurrence found before a later linkifyRows call on the attached
\* engine never gets a zone, whatever its validation delivers and whenever.
C2_NoZoneAfterNewerRequest == ~staleAdded

\* C3: scanning a row with a matcher terminates: no pass is ended by the
\* host giving up an unbounded recursion.
C3_ScanTerminates == ~lastPass.err

\* C4: the registry is sorted by non-increasing priority, and entries of
\* equal priority are in registration order (smaller id first).
C4_RegistryOrder ==
  \A i \in 1..Len(linkMatchers), j \in 1..Len(linkMatchers) :
    i < j => \/ linkMatchers[i].priority > linkMatchers[j].priority
             \/ /\ linkMatchers[i].priority = linkMatchers[j].priority
                /\ linkMatchers[i].id < linkMatchers[j].id
\* three entries, two of them tied, one of another priority, after a
\* deregistration
C4_Witness ==
  /\ Len(linkMatchers) >= 3
  /\ nextLinkMatcherId > Len(linkMatchers)
  /\ \E i, j \in 1..Len(linkMatchers) :
       i < j /\ linkMatchers[i].priority = linkMatchers[j].priority
  /\ \E i, j \in 1..Len(linkMatchers) :
       linkMatchers[i].priority > linkMatchers[j].priority
  /\ lastCall.op = "registerLinkMatcher" /\ lastCall.ok

\* C5: a linkifyRows call that follows another before its timer fired
\* replaces it: no pass runs for the replaced call, one pass runs for each
\* call that was not replaced, and that pass visits exactly the rows of the
\* call it runs for, the latest one.
C5_Coalesced ==
  /\ reqHist.passes + reqHist.superseded <= reqHist.attached
  /\ ~reqHist.pending => reqHist.passes + reqHist.superseded = reqHist.attached
  /\ lastPass.timer # NoTimer =>
       /\ lastPass.latest
       /\ RowsOf(lastPass.log) = Range(lastPass.reqStart, lastPass.reqEnd)
\* two calls, the first replaced, one pass run, over rows 0..1
C5_Witness ==
  /\ reqHist.attached = 2
  /\ reqHist.superseded = 1
  /\ reqHist.passes = 1
  /\ ~reqHist.pending
  /\ RowsOf(lastPass.log) = << 0, 1 >>

\* C6: for an id other than 0, deregisterLinkMatcher(id) returns true exactly
\* when the registry holds an entry of that id, and then removes that entry
\* and no other; otherwise the registry is unchanged.
C6_DeregisterExact ==
  (lastCall.op = "deregisterLinkMatcher" /\ lastCall.id # HYPERTEXT_LINK_MATCHER_ID)
    => /\ lastCall.ok = (lastCall.id \in Ids(lastCall.pre))
       /\ linkMatchers = Without(lastCall.pre, lastCall.id)

\* C7: setHypertextLinkHandler and setHypertextValidationCallback change the
\* field of the entry whose id is 0 and nothing else of the registry.
C7_BuiltinFieldsOnly ==
  /\ lastCall.op = "setHypertextLinkHandler" =>
       linkMatchers = [i \in 1..Len(lastCall.pre) |->
                         IF lastCall.pre[i].id = HYPERTEXT_LINK_MATCHER_ID
                           THEN [lastCall.pre[i] EXCEPT !.handler = lastCall.fn]
                           ELSE lastCall.pre[i]]
  /\ lastCall.op = "setHypertextValidationCallback" =>
       linkMatchers = [i \in 1..Len(lastCall.pre) |->
                         IF lastCall.pre[i].id = HYPERTEXT_LINK_MATCHER_ID
                           THEN [lastCall.pre[i] EXCEPT
                                   !.validationCallback = lastCall.fn]
                           ELSE lastCall.pre[i]]

\* C8: after construction a registerLinkMatcher call without a handler fails
\* and leaves the registry and the next id as they were; a call that succeeds
\* returns the next id.
C8_AbsentHandlerFails ==
  lastCall.op = "registerLinkMatcher" =>
    IF lastCall.fn = Null
      THEN /\ ~lastCall.ok
           /\ linkMatchers = lastCall.pre
           /\ nextLinkMatcherId = lastCall.preNext
      ELSE /\ lastCall.ok
           /\ lastCall.ret = lastCall.preNext
           /\ nextLinkMatcherId = lastCall.preNext + 1
\* a failed call on a registry that already holds a custom matcher
C8_Witness ==
  /\ lastCall.op = "registerLinkMatcher"
  /\ lastCall.fn = Null
  /\ ~lastCall.ok
  /\ Len(linkMatchers) >= 2

\* C9: a linkifyRows call on an engine that is not attached changes nothing
\* (no timer, no zone clear, the scheduler stays idle), and no pass ever runs
\* for it, also after a later attachToDom; the registry can be changed before
\* attachment.
C9_UnattachedState ==
  /\ reqHist.passes <= reqHist.attached
  /\ reqHist.attached = 0 =>
       /\ timers = {}
       /\ rowsTimeoutId = NoTimer
       /\ nextTimerId = 1
       /\ zones = << >>
       /\ inflight = {}
       /\ lastPass = NoPass
C9_UnattachedStep ==
  (reqHist'.calls = reqHist.calls + 1 /\ mouseZoneManager = Null)
    => UNCHANGED << linkMatchers, nextLinkMatcherId, mouseZoneManager,
                    rowsTimeoutId, buffer, timers, nextTimerId, zones, inflight,
                    lastPass >>
C9_UnattachedRequestIgnored == [](C9_UnattachedState) /\ [][C9_UnattachedStep]_vars
\* attached after a call that was ignored, with a matcher registered before
\* the attachment: still nothing armed
C9_Witness ==
  /\ mouseZoneManager # Null
  /\ reqHist.calls >= 1
  /\ reqHist.attached = 0
  /\ Len(linkMatchers) >= 2
  /\ timers = {}

\* C10: in a pass, a row whose absolute index is not below the buffer's row
\* count is skipped: after the call for it nothing is fetched, scanned or
\* found for it, the pass goes on to the next row of its range, and no zone
\* and no validation belongs to such a row.
Beyond(y) == buffer.ydisp + y >= Len(buffer.lines)
C10_RowBeyondSkipped ==
  /\ \A i \in 1..Len(lastPass.log) :
       (lastPass.log[i].e = "row" /\ Beyond(lastPass.log[i].y)) =>
         IF lastPass.log[i].y < lastPass.end
           THEN /\ i < Len(lastPass.log)
                /\ lastPass.log[i + 1].e = "row"
                /\ lastPass.log[i + 1].y = lastPass.log[i].y + 1
           ELSE i = Len(lastPass.log)
  /\ \A i \in 1..Len(lastPass.log) :
       lastPass.log[i].e # "row" => ~Beyond(lastPass.log[i].y)
  /\ \A i \in 1..Len(zones) : ~Beyond(zones[i].y - 1)
  /\ \A c \in inflight : ~Beyond(c.y)
\* a pass that scanned a row, found a link on it, then skipped two rows
C10_Witness ==
  /\ \E i \in 1..Len(lastPass.log) :
       /\ lastPass.log[i].e = "row" /\ Beyond(lastPass.log[i].y)
       /\ i < Len(lastPass.log)
  /\ \E i \in 1..Len(lastPass.log) : lastPass.log[i].e = "occ"
  /\ zones # << >>

\* the "occ" events of a log, in order
OccsOf(log) == SelectSeq(log, LAMBDA ev : ev.e = "occ")
\* the zones the last step added
NewZones == SubSeq(zones, Len(lastDone.pre) + 1, Len(zones))
\* the length the iterations of one _doLinkifyRow recursion consumed before
\* the occurrence logged at k: for each, the index of its link text in the
\* text it was given plus the length of that link text
RECURSIVE ConsumedBefore(_, _)
ConsumedBefore(log, k) ==
  IF k = 1 \/ log[k - 1].e # "occ" THEN 0
  ELSE ConsumedBefore(log, k - 1)
         + IndexOf(log[k - 1].text, log[k - 1].uri) + Len(log[k - 1].uri)

\* C11: the column of an occurrence is the length consumed by the earlier
\* iterations on its row plus the first index of its link text in the
\* remainder at hand, and the zone registered for an occurrence at column c
\* of row r with a link text of length n is [c + 1, c + 1 + n) on row r + 1.
C11_ZoneCoordinates ==
  /\ \A k \in 1..Len(lastPass.log) :
       lastPass.log[k].e = "occ" =>
         lastPass.log[k].x = ConsumedBefore(lastPass.log, k)
                               + IndexOf(lastPass.log[k].text, lastPass.log[k].uri)
  /\ lastDone.op = "pass" =>
       /\ Len(lastDone.occs) = Len(OccsOf(lastPass.log))
       /\ \A i \in 1..Len(lastDone.occs) :
            /\ lastDone.occs[i].x = OccsOf(lastPass.log)[i].x
            /\ lastDone.occs[i].y = OccsOf(lastPass.log)[i].y
            /\ lastDone.occs[i].uri = OccsOf(lastPass.log)[i].uri
  /\ \A j \in 1..Len(NewZones) :
       \E i \in 1..Len(lastDone.occs) :
         /\ NewZones[j].uri = lastDone.occs[i].uri
         /\ NewZones[j].id = lastDone.occs[i].id
         /\ NewZones[j].x1 = lastDone.occs[i].x + 1
         /\ NewZones[j].x2 = lastDone.occs[i].x + 1 + Len(lastDone.occs[i].uri)
         /\ NewZones[j].y = lastDone.occs[i].y + 1
\* a zone for a later occurrence of a recursion, on the second row, whose link
\* text is not at the start of the remainder it was found in
C11_Witness ==
  /\ lastDone.op = "pass"
  /\ \E k \in 2..Len(lastPass.log) :
       /\ lastPass.log[k].e = "occ" /\ lastPass.log[k - 1].e = "occ"
       /\ lastPass.log[k].uri # << >>
       /\ IndexOf(lastPass.log[k].text, lastPass.log[k].uri) > 0
       /\ \E j \in 1..Len(NewZones) :
            /\ NewZones[j].x1 = lastPass.log[k].x + 1
            /\ NewZones[j].y = lastPass.log[k].y + 1
            /\ NewZones[j].uri = lastPass.log[k].uri
  /\ \E j \in 1..Len(NewZones) : NewZones[j].y = 2

\* C12: every validation callback invoked in a pass, also for the second and
\* later occurrences of a matcher on a row, is given the full text of the row
\* as fetched from the buffer.
C12_ValidationGetsRowText ==
  \A k \in 1..Len(lastPass.log) :
    (lastPass.log[k].e = "occ" /\ lastPass.log[k].validate # Null) =>
      \E j \in 1..(k - 1) :
        /\ lastPass.log[j].e = "text"
        /\ lastPass.log[j].y = lastPass.log[k].y
        /\ lastPass.log[j].text = lastPass.log[k].text

\* the zone of an occurrence at column o.x of row o.y
ZoneOf(o) ==
  [x1 |-> o.x + 1, x2 |-> o.x + 1 + Len(o.uri), y |-> o.y + 1, uri |-> o.uri,
   id |-> o.id]
\* the zones of the occurrences of occs whose conduct is in accepted, in order
RECURSIVE ZonesOf(_, _, _, _)
ZonesOf(occs, conduct, accepted, i) ==
  IF i > Len(occs) THEN << >>
  ELSE (IF conduct[i] \in accepted THEN << ZoneOf(occs[i]) >> ELSE << >>)
         \o ZonesOf(occs, conduct, accepted, i + 1)

\* C13: a pass runs with the pending marker cleared, so it leaves the
\* scheduler idle and registers, in order, the zone of every occurrence whose
\* matcher has no validation callback and of every occurrence whose callback
\* delivered true inside its call, and of no other; a completion function
\* invoked later while no timer is armed registers its zone if and only if it
\* is given true.
C13_IdleCompletionRegisters ==
  /\ lastDone.op = "pass" =>
       /\ lastDone.idle
       /\ rowsTimeoutId = NoTimer
       /\ zones = lastDone.pre
                    \o ZonesOf(lastDone.occs, lastDone.conduct, {"none", "true"}, 1)
  /\ (lastDone.op = "complete" /\ lastDone.idle) =>
       zones = lastDone.pre
                 \o ZonesOf(lastDone.occs, lastDone.conduct, {"true"}, 1)
\* a completion function given true after its pass, no timer armed: its zone
\* follows the zone the pass registered at once
C13_Witness ==
  /\ lastDone.op = "complete"
  /\ lastDone.idle
  /\ lastDone.conduct = << "true" >>
  /\ Len(lastDone.pre) >= 1
  /\ Len(zones) = Len(lastDone.pre) + 1
  /\ \E k \in 1..Len(lastPass.log) :
       lastPass.log[k].e = "occ" /\ lastPass.log[k].validate = Null

\* C14: at most one timer is armed, and it is the one _rowsTimeoutId names;
\* the passes run never outnumber the linkifyRows calls, and a timer that a
\* later linkifyRows call cancelled never runs a pass.
C14_AtMostOneTimer ==
  /\ Cardinality(timers) <= 1
  /\ \A t \in timers : t.id = rowsTimeoutId /\ t.id = reqHist.timer
  /\ reqHist.passes <= reqHist.calls
  /\ lastPass.timer # NoTimer => lastPass.latest
\* a second call made while the timer of the first was armed: one timer, the
\* second call's
C14_Witness ==
  /\ reqHist.attached >= 2
  /\ reqHist.superseded >= 1
  /\ Cardinality(timers) = 1
  /\ reqHist.passes = 0
  /\ \E t \in timers : t.id = 2

\* C15: when the host fires armed timers, the n-th linkifyRows(s, e) call on
\* the attached engine is followed by another call or by a pass that runs for
\* it over exactly the rows s..e and leaves no timer armed and _rowsTimeoutId
\* cleared.
C15_ScanEventuallyRuns ==
  \A n \in 1..MaxRequests :
    (reqHist.pending /\ reqHist.attached = n)
      ~> \/ reqHist.attached > n
         \/ /\ ~reqHist.pending
            /\ lastPass.timer = reqHist.timer
            /\ lastPass.start = reqHist.start /\ lastPass.end = reqHist.end
            /\ RowsOf(lastPass.log) = Range(reqHist.start, reqHist.end)
            /\ ~lastPass.err
            /\ timers = {}
            /\ rowsTimeoutId = NoTimer
\* one call, linkifyRows(1, 2), and its pass: rows 1 and 2, then idle
C15_Witness ==
  /\ reqHist.attached = 1
  /\ reqHist.passes = 1
  /\ ~reqHist.pending
  /\ reqHist.start = 1 /\ reqHist.end = 2
  /\ RowsOf(lastPass.log) = << 1, 2 >>
  /\ timers = {}
  /\ rowsTimeoutId = NoTimer

\* the place of the matcher of this id in the registry
PlaceOf(id) == CHOOSE i \in 1..Len(linkMatchers) : linkMatchers[i].id = id

\* C16: a pass takes its rows in ascending order, finishing one before the
\* next, and on a row every occurrence of a matcher earlier in the registry
\* is processed before any occurrence of a matcher later in it; the zones a
\* pass registers follow in that order.
C16_ProcessingOrder ==
  /\ \A i, j \in 1..Len(lastPass.log) :
       i < j =>
         /\ lastPass.log[i].y <= lastPass.log[j].y
         /\ lastPass.log[j].e = "row" => lastPass.log[i].y < lastPass.log[j].y
         /\ (/\ lastPass.log[i].e \in {"scan", "occ"}
             /\ lastPass.log[j].e \in {"scan", "occ"}
             /\ lastPass.log[i].y = lastPass.log[j].y)
              => PlaceOf(lastPass.log[i].id) <= PlaceOf(lastPass.log[j].id)
  /\ lastDone.op = "pass" =>
       \A i, j \in 1..Len(NewZones) :
         i < j =>
           \/ NewZones[i].y < NewZones[j].y
           \/ /\ NewZones[i].y = NewZones[j].y
              /\ PlaceOf(NewZones[i].id) <= PlaceOf(NewZones[j].id)
\* a pass over two rows: on the first the custom matcher, of higher priority,
\* and then the built-in one find a link; the second row has one as well
C16_Witness ==
  /\ lastDone.op = "pass"
  /\ linkMatchers[1].id # HYPERTEXT_LINK_MATCHER_ID
  /\ \E i, j, k \in 1..Len(lastPass.log) :
       /\ i < j /\ j < k
       /\ lastPass.log[i].e = "occ" /\ lastPass.log[j].e = "occ"
       /\ lastPass.log[k].e = "occ"
       /\ lastPass.log[i].y = lastPass.log[j].y
       /\ lastPass.log[i].id = linkMatchers[1].id
       /\ lastPass.log[j].id = HYPERTEXT_LINK_MATCHER_ID
       /\ lastPass.log[k].y > lastPass.log[j].y
  /\ Len(NewZones) >= 2

\* the literal the pattern /bb/ stands for
bbLiteral == <<"b", "b">>
\* whether the literal lit occurs in text at position q
OccursAt(text, lit, q) ==
  q >= 0 /\ q + Len(lit) <= Len(text) /\ SubSeq(text, q + 1, q + Len(lit)) = lit
\* the occurrences logged one after the other from the k-th event on
RECURSIVE OccsFrom(_, _)
OccsFrom(log, k) ==
  IF k > Len(log) \/ log[k].e # "occ" THEN << >>
  ELSE << log[k] >> \o OccsFrom(log, k + 1)
\* whether the columns of occs are those of a leftmost-first scan of text
\* for non-overlapping occurrences of lit
LeftmostNonOverlapping(text, lit, occs) ==
  /\ \A i \in 1..Len(occs) :
       /\ occs[i].uri = lit
       /\ OccursAt(text, lit, occs[i].x)
       /\ i < Len(occs) => occs[i].x + Len(lit) <= occs[i + 1].x
  /\ \A q \in 0..Len(text) :
       OccursAt(text, lit, q) =>
         \E i \in 1..Len(occs) :
           q < occs[i].x + Len(lit) /\ occs[i].x < q + Len(lit)

\* C17: for a matcher whose pattern is the literal bb and whose link text is
\* the whole match, the occurrences a scan of a row emits are those of a
\* leftmost-first non-overlapping scan: columns strictly increasing, spans
\* disjoint, the literal at every emitted column, and no occurrence of the
\* literal that lies entirely outside the emitted spans.
C17_LiteralScan ==
  \A k \in 1..Len(lastPass.log) :
    (/\ lastPass.log[k].e = "scan"
     /\ linkMatchers[PlaceOf(lastPass.log[k].id)].regex = "bb"
     /\ linkMatchers[PlaceOf(lastPass.log[k].id)].matchIndex = NoIndex)
      => LeftmostNonOverlapping(lastPass.log[k].text, bbLiteral,
                                OccsFrom(lastPass.log, k + 1))
\* the row "bbbbb bb": three occurrences, at columns 0, 2 and 6
C17_Witness ==
  \E k \in 1..Len(lastPass.log) :
    /\ lastPass.log[k].e = "scan"
    /\ linkMatchers[PlaceOf(lastPass.log[k].id)].regex = "bb"
    /\ lastPass.log[k].text = OverlapRow
    /\ Len(OccsFrom(lastPass.log, k + 1)) = 3
    /\ OccsFrom(lastPass.log, k + 1)[3].x = 6

\* the number of entries of list that have this id
CountId(list, id) == Cardinality({i \in 1..Len(list) : list[i].id = id})

\* C18: the ids successful registerLinkMatcher calls return are 1, 2, 3, ...
\* in call order, never 0 and never an id handed out before, also after a
\* deregistration; no two entries of the registry share an id, and no entry
\* of id 0 is created after construction.
C18_IdsState ==
  /\ nextLinkMatcherId >= 1
  /\ \A i \in 1..Len(linkMatchers) :
       /\ linkMatchers[i].id >= 0
       /\ linkMatchers[i].id < nextLinkMatcherId
       /\ CountId(linkMatchers, linkMatchers[i].id) = 1
  /\ (lastCall.op = "registerLinkMatcher" /\ lastCall.ok) =>
       /\ lastCall.ret = lastCall.preNext
       /\ lastCall.ret >= 1
       /\ \A i \in 1..Len(lastCall.pre) : lastCall.pre[i].id < lastCall.ret
       /\ CountId(linkMatchers, lastCall.ret) = 1
       /\ Len(linkMatchers) = Len(lastCall.pre) + 1
C18_IdsStep ==
  /\ nextLinkMatcherId' >= nextLinkMatcherId
  /\ (lastCall'.op = "registerLinkMatcher" /\ lastCall'.ok)
       => /\ lastCall'.ret = nextLinkMatcherId
          /\ nextLinkMatcherId' = nextLinkMatcherId + 1
  /\ ~(lastCall'.op = "registerLinkMatcher" /\ lastCall'.ok)
       => nextLinkMatcherId' = nextLinkMatcherId
  /\ CountId(linkMatchers', HYPERTEXT_LINK_MATCHER_ID)
       <= CountId(linkMatchers, HYPERTEXT_LINK_MATCHER_ID)
C18_IdsIncreaseNeverReused == [](C18_IdsState) /\ [][C18_IdsStep]_vars
\* a third registration after a deregistration: it returns 3 though the
\* registry held fewer than three entries
C18_Witness ==
  /\ lastCall.op = "registerLinkMatcher"
  /\ lastCall.ok
  /\ lastCall.ret = 3
  /\ Len(lastCall.pre) < 3
  /\ Len(linkMatchers) = Len(lastCall.pre) + 1

\* C19: while a timer is armed (the scheduler is pending) the mouse zone
\* manager holds no zone: linkifyRows cleared them, passes run only when the
\* timer fires, and a completion function invoked meanwhile drops its result.
C19_NoZonesWhilePending ==
  (timers # {} \/ rowsTimeoutId # NoTimer \/ reqHist.pending) => zones = << >>
\* a completion function given true while the timer of a later linkifyRows
\* call is armed: no zone
C19_Witness ==
  /\ timers # {}
  /\ lastDone.op = "complete"
  /\ ~lastDone.idle
  /\ lastDone.conduct = << "true" >>
  /\ zones = << >>

\* the text of the row a zone lies on
RowTextOf(z) == translateBufferLineToString(buffer, buffer.ydisp + z.y - 1)

\* C20: the characters of the row at the columns of a zone are the zone's
\* link text, also when the link text was found by indexOf at another place
\* than the one the pattern matched it at.
C20_ZoneTextInRow ==
  \A j \in 1..Len(zones) :
    /\ zones[j].x1 >= 1
    /\ zones[j].x2 - 1 <= Len(RowTextOf(zones[j]))
    /\ Slice(RowTextOf(zones[j]), << zones[j].x1 - 1, zones[j].x2 - 1 >>)
         = zones[j].uri
\* /a(b)/ with link text group 1 on a row whose first b is not the one the
\* pattern matched: the zone is at the first b
C20_Witness ==
  \E j \in 1..Len(zones) :
    /\ linkMatchers[PlaceOf(zones[j].id)].regex = "ctx"
    /\ zones[j].uri = << "b" >>
    /\ zones[j].x1 = 1
    /\ MatchTable[<< "ctx", RowTextOf(zones[j]) >>].caps[1] # << 0, 1 >>

====
